---- MODULE Spec2Model ----
(***************************************************************************)
(* The content index of exchange (Index in src/exchange/stat.go): the held *)
(* LFU bucket list with its map, size accountant and persistent map, and   *)
(* the interest list.  Record objects are modelled with their identity     *)
(* (DataRef pointers), list elements with theirs (list.Element pointers).  *)
(***************************************************************************)
EXTENDS Integers, Sequences, FiniteSets, TLC

(* ------------------------------ bounds -------------------------------- *)

\* width of the machine word standing for uint64 (arithmetic is % 2^WordBits)
WordBits == 12
\* largest Freq a record is driven to
MaxFreq == 2
\* largest bucket id a record is driven to
MaxBucketID == 3
\* largest accumulated size the callers drive the index to
MaxSize == 300
\* number of storage failures (persistent map, datastore, multistore) the
\* environment produces in a run that has any
MaxFaults == 1
\* largest frequency a remote index carries for a key
MaxRemoteFreq == 1
\* largest aggregated frequency an interest record is driven to
MaxInterestFreq == 2

(* --------------------------- the universe ----------------------------- *)

\* the DataRef objects the callers own: object 4 is a second object that
\* carries the content id of object 1
Objs == 1 .. 4
Nil == 0
Cids == {"A", "B", "C"}

PayloadCID(o) == CASE o = 1 -> "A" [] o = 2 -> "B" [] o = 3 -> "C" [] OTHER -> "A"
PayloadSize(o) == 100

\* the threads of a concurrent run: thread t inserts object t
Threads == 1 .. 3

\* list elements available to container/list (unreferenced ones are reused)
Nodes == 1 .. (Cardinality(Objs) + 1)
NilNode == 0

\* the runs explored: the (upper, lower) bounds the index is built with, the
\* DataRef objects its callers own, the storage failures the environment
\* produces, and whether the callers use the interest list
World(up, lo, objs, nfaults, wanted) ==
    [ ub |-> up, lb |-> lo, objs |-> objs, faults |-> nfaults, interest |-> wanted ]
Worlds ==
    { World(0, 0, { 1, 2, 3 }, 0, FALSE),
      World(250, 150, { 1, 2, 3 }, 0, FALSE),
      World(0, 0, { 1, 2, 4 }, 0, FALSE),
      World(250, 150, { 1, 2, 4 }, 0, FALSE),
      World(0, 0, { 1, 4 }, MaxFaults, FALSE),
      World(150, 100, { 1, 2 }, MaxFaults, FALSE),
      World(150, 100, { 1, 2 }, 0, TRUE),
      World(200, 100, { 1 }, 0, TRUE),
      World(0, 0, { 1 }, 0, TRUE) }

\* Index.interest without entry for a key, and a listEntry nothing is in
NoInterest == [ present |-> FALSE, Freq |-> 0, bucketNode |-> 0 ]
EmptyEntry == [ freq |-> 0, entries |-> {} ]

UintMod == 2 ^ WordBits
U64(x) == x % UintMod

(* ----------------------------- the state ------------------------------ *)

VARIABLES
    world,       \* the run explored (never changes)
    ub, lb,      \* Index.ub, Index.lb
    size,        \* Index.size
    Refs,        \* Index.Refs: content id -> object (Nil: no entry)
    rec,         \* the mutable fields of every DataRef object
    bnode,       \* the bucket each list element of blist carries
    blist,       \* Index.blist: the linked elements, front to back
    root,        \* Index.root: the in-memory HAMT
    rootCID,     \* Index.rootCID: the root the last Put produced
    dsRoot,      \* the root stored under /index/idx
    interest,    \* Index.interest: content id -> interest record
    fnode,       \* the listEntry each list element of freqs carries
    freqs,       \* Index.freqs: the linked elements, front to back
    mu, imu,     \* the two mutexes: TRUE when locked
    panicked,    \* a nil dereference or index out of range ended the process
    faults,      \* environment: the storage failures still to come
    ret,         \* what the last operation changing the index was, how it ended
    phase,       \* history: the kind of operations run since construction
    inserted,    \* history: the objects inserted, in order, while phase tells
    track,       \* history: per object, the reads since its insertion
    merged,      \* history: per key, the Freq the remote roots loaded carried
    tx           \* per thread of a concurrent run: its position and its locals

vars == << world, ub, lb, size, Refs, rec, bnode, blist, root, rootCID, dsRoot,
           interest, fnode, freqs, mu, imu, panicked, faults, ret, phase,
           inserted,
           track, merged, tx >>

(* ------------------------- container/list ----------------------------- *)

Range(s) == { s[i] : i \in 1 .. Len(s) }
Linked(l, e) == e \in Range(l)
IndexOf(l, e) == CHOOSE i \in 1 .. Len(l) : l[i] = e
Front(l) == IF l = << >> THEN NilNode ELSE l[1]
Back(l) == IF l = << >> THEN NilNode ELSE l[Len(l)]
\* Element.Next: nil for the last element and for an element that left the list
ListNext(l, e) ==
    IF Linked(l, e) /\ IndexOf(l, e) < Len(l) THEN l[IndexOf(l, e) + 1] ELSE NilNode
\* Element.Prev, changed to go towards the back
ListPrevTowardsBack(l, e) == ListNext(l, e)
\* Element.Prev
ListPrev(l, e) ==
    IF Linked(l, e) /\ IndexOf(l, e) > 1 THEN l[IndexOf(l, e) - 1] ELSE NilNode
PushFront(l, e) == << e >> \o l
PushBack(l, e) == Append(l, e)
\* List.InsertAfter, changed to insert on the wrong side of mark
InsertAfterWrongSide(l, e, mark) ==
    IF Linked(l, mark)
    THEN SubSeq(l, 1, IndexOf(l, mark) - 1) \o << e >> \o SubSeq(l, IndexOf(l, mark), Len(l))
    ELSE l
\* List.InsertAfter / InsertBefore: no insertion when mark is not an element of l
InsertAfter(l, e, mark) ==
    IF Linked(l, mark)
    THEN SubSeq(l, 1, IndexOf(l, mark)) \o << e >> \o SubSeq(l, IndexOf(l, mark) + 1, Len(l))
    ELSE l
InsertBefore(l, e, mark) ==
    IF Linked(l, mark)
    THEN SubSeq(l, 1, IndexOf(l, mark) - 1) \o << e >> \o SubSeq(l, IndexOf(l, mark), Len(l))
    ELSE l
\* List.Remove: nothing happens when e is not an element of l
ListRemove(l, e) == SelectSeq(l, LAMBDA x : x # e)

(* ------------------------- the held bucket list ----------------------- *)

\* the in-memory held state an operation works on
Held == [ Refs |-> Refs, size |-> size, rec |-> rec, bnode |-> bnode,
          blist |-> blist, panicked |-> FALSE, evicted |-> 0, victims |-> {} ]

EmptyBucket == [ id |-> 0, entries |-> {} ]
\* a DataRef as the caller makes it: Freq 0, no bucket
NoRecord == [ Freq |-> 0, BucketID |-> 0, bucketNode |-> NilNode ]

\* a list element no list and no record refers to (a fresh allocation)
FreeNode(h) ==
    CHOOSE n \in Nodes :
        /\ ~ Linked(h.blist, n)
        /\ \A o \in Objs : h.rec[o].bucketNode # n
        /\ \A m \in Nodes :
              (~ Linked(h.blist, m) /\ \A o \in Objs : h.rec[o].bucketNode # m) => n <= m

\* Element pointers are not observable: the linked elements are renamed 1, 2, ..
\* front to back, then the unlinked ones records still point to, and the
\* elements nothing refers to any more are collected
Collect(h) ==
    LET gone == { n \in Nodes : ~ Linked(h.blist, n)
                                 /\ \E o \in Objs : h.rec[o].bucketNode = n }
        first(n) == CHOOSE o \in Objs :
                        /\ h.rec[o].bucketNode = n
                        /\ \A q \in Objs : h.rec[q].bucketNode = n => o <= q
        name(n) == IF n = NilNode THEN NilNode
                   ELSE IF Linked(h.blist, n) THEN IndexOf(h.blist, n)
                   ELSE Len(h.blist) + Cardinality({ m \in gone : first(m) <= first(n) })
        used == Range(h.blist) \cup gone
    IN  [ h EXCEPT
            !.bnode = [ j \in Nodes |->
                          IF \E n \in used : name(n) = j
                          THEN h.bnode[CHOOSE n \in used : name(n) = j]
                          ELSE EmptyBucket ],
            !.rec = [ o \in Objs |-> [ h.rec[o] EXCEPT !.bucketNode = name(@) ] ],
            !.blist = [ j \in 1 .. Len(h.blist) |-> j ] ]

\* remBlistEntry: a nil place is a nil dereference
remBlistEntry(h, place, entry) ==
    IF place = NilNode THEN [ h EXCEPT !.panicked = TRUE ]
    ELSE LET left == h.bnode[place].entries \ { entry }
         IN  [ h EXCEPT !.bnode[place].entries = left,
                        !.blist = IF left = {} THEN ListRemove(h.blist, place) ELSE @ ]

\* increment, for a record that leaves the call with frequency freq
moveUp(h, ref, freq) ==
    LET currentPlace == h.rec[ref].bucketNode
        isNew == currentPlace = NilNode
        back == Back(h.blist)
        nextID == IF isNew
                  THEN (IF back # NilNode THEN h.bnode[back].id ELSE 1)
                  ELSE h.bnode[currentPlace].id + 1
        found == IF isNew THEN back ELSE ListNext(h.blist, currentPlace)
        create == found = NilNode \/ h.bnode[found].id # nextID
        li == FreeNode(h)
        \* InsertAfter returns nil when currentPlace has left the list
        nextPlace == IF ~ create THEN found
                     ELSE IF isNew THEN li
                     ELSE IF Linked(h.blist, currentPlace) THEN li ELSE NilNode
        blist1 == IF ~ create THEN h.blist
                  ELSE IF isNew THEN PushFront(h.blist, li)
                  ELSE InsertAfter(h.blist, li, currentPlace)
        bnode1 == IF create /\ nextPlace # NilNode
                  THEN [ h.bnode EXCEPT ![li] = [ id |-> nextID, entries |-> {} ] ]
                  ELSE h.bnode
        rec1 == [ h.rec EXCEPT ![ref] =
                    [ Freq |-> freq,
                      BucketID |-> nextID,
                      bucketNode |-> nextPlace ] ]
        h1 == [ h EXCEPT !.rec = rec1, !.blist = blist1, !.bnode = bnode1 ]
    IN  IF nextPlace = NilNode
        THEN [ h1 EXCEPT !.panicked = TRUE ]
        ELSE LET h2 == [ h1 EXCEPT !.bnode[nextPlace].entries = @ \cup { ref } ]
             IN  IF isNew THEN h2 ELSE remBlistEntry(h2, currentPlace, ref)

\* increment, changed to count the insertion as a read
incrementCountingInsert(h, ref) == moveUp(h, ref, h.rec[ref].Freq + 1)

\* increment: frequency starts at 0 and only increments after the record was
\* placed in the list
increment(h, ref) ==
    moveUp(h, ref, IF h.rec[ref].bucketNode = NilNode THEN h.rec[ref].Freq
                   ELSE h.rec[ref].Freq + 1)

\* the entries of a bucket in the order a range over the map yields them
InOrder(entries, order) == SelectSeq(order, LAMBDA o : o \in entries)

\* evict, inner loop: the entries of the bucket at place still to visit
RECURSIVE evictEntries(_, _, _, _, _)
evictEntries(h, place, todo, target, fails) ==
    IF todo = << >> THEN [ h |-> h, done |-> FALSE ]
    ELSE LET entry == Head(todo)
             h1 == [ h EXCEPT !.Refs[PayloadCID(entry)] = Nil ]
         IN  IF entry \in fails
             THEN evictEntries(h1, place, Tail(todo), target, fails)
             ELSE LET h2 == remBlistEntry(h1, place, entry)
                      h3 == [ h2 EXCEPT !.evicted = U64(@ + PayloadSize(entry)),
                                        !.size = U64(@ + UintMod - PayloadSize(entry)),
                                        !.victims = @ \cup { entry } ]
                  IN  IF h3.evicted >= target
                      THEN [ h |-> h3, done |-> TRUE ]
                      ELSE evictEntries(h3, place, Tail(todo), target, fails)

\* evict, outer loop: place.Next() is nil once place has been removed
RECURSIVE evictWalk(_, _, _, _, _)
evictWalk(h, place, target, order, fails) ==
    IF place = NilNode THEN h
    ELSE LET r == evictEntries(h, place, InOrder(h.bnode[place].entries, order), target, fails)
         IN  IF r.done THEN r.h
             ELSE evictWalk(r.h, ListNext(r.h.blist, place), target, order, fails)

\* evict
evict(h, target, order, fails) == evictWalk(h, Front(h.blist), target, order, fails)

(* --------------------------- persistent map --------------------------- *)

\* a key without entry in a persistent map
Absent == [ obj |-> Nil, Freq |-> 0, BucketID |-> 0 ]
EmptyMap == [ k \in Cids |-> Absent ]
\* the fields MarshalCBOR writes (size and store id are those of the object)
Encode(h, o) == [ obj |-> o, Freq |-> h.rec[o].Freq, BucketID |-> h.rec[o].BucketID ]
\* a root cid stands for the map it addresses; def is FALSE for cid.Undef and
\* for a datastore without the key
NoRoot == [ def |-> FALSE, map |-> EmptyMap ]
RootOf(m) == [ def |-> TRUE, map |-> m ]

\* how the storage calls of an operation end: all succeed, root.Set fails,
\* root.Delete fails, ms.Delete fails, Flush fails before idx.rootCID is
\* assigned, or Flush fails in its final ds.Put
SetResults == { "ok", "setErr", "putErr", "dsErr" }
DropResults == { "ok", "delErr", "msErr", "putErr", "dsErr" }

OrdersOf(S) ==
    { s \in [ 1 .. Cardinality(S) -> S ] : \A i, j \in 1 .. Cardinality(S) : s[i] = s[j] => i = j }
CidOrders == OrdersOf(Cids)

\* the objects that are entries of some bucket of the list
Listed == UNION { bnode[n].entries : n \in Range(blist) }
HeldKeys == { k \in Cids : Refs[k] # Nil }
HeldObjs == { Refs[k] : k \in HeldKeys }

(* ------------------------------ history ------------------------------- *)

NoTrack == [ live |-> FALSE, b0 |-> 0, n |-> 0 ]
\* a thread that runs no call
Idle == [ pc |-> "idle", r |-> NoRoot, av |-> 0 ]
\* no remote root loaded since the key last left the interest map
NoLoads == [ seen |-> FALSE, sum |-> 0 ]

Result(op, arg, res, victims, exceeded) ==
    [ op |-> op, arg |-> arg, res |-> res, victims |-> victims, exceeded |-> exceeded ]

\* phase: "sets" while only new records of new content ids were inserted, all
\* calls succeeding and the size within the bounds; "gets" once records were
\* read after that; "mixed" once a record was inserted after a read; "evicted"
\* right after an insertion of the "sets" phase that took the size over the
\* upper bound, "evictedAfterReads" after one of the "gets" or "mixed" phase;
\* "other" after anything else
SetPhase(clean, exceeded) ==
    IF ~ clean \/ phase \notin { "sets", "gets", "mixed" } THEN "other"
    ELSE IF exceeded THEN (IF phase = "sets" THEN "evicted" ELSE "evictedAfterReads")
    ELSE IF phase = "sets" THEN "sets" ELSE "mixed"
GetPhase(res) ==
    IF res # "ok" \/ phase \notin { "sets", "gets", "mixed" } THEN "other"
    ELSE IF phase = "sets" THEN "gets" ELSE phase

(* ------------------------------ Init ---------------------------------- *)

Init ==
    /\ world \in Worlds
    /\ ub = world.ub
    /\ lb = world.lb
    /\ size = 0
    /\ Refs = [ k \in Cids |-> Nil ]
    /\ rec = [ o \in Objs |-> NoRecord ]
    /\ bnode = [ n \in Nodes |-> EmptyBucket ]
    /\ blist = << >>
    /\ root = EmptyMap
    /\ rootCID = NoRoot
    /\ dsRoot = NoRoot
    /\ interest = [ k \in Cids |-> NoInterest ]
    /\ fnode = [ n \in Nodes |-> EmptyEntry ]
    /\ freqs = << >>
    /\ mu = FALSE
    /\ imu = FALSE
    /\ panicked = FALSE
    /\ faults = world.faults
    /\ ret = Result("NewIndex", Nil, "ok", {}, FALSE)
    /\ phase = "sets"
    /\ inserted = << >>
    /\ track = [ o \in Objs |-> NoTrack ]
    /\ merged = [ k \in Cids |-> NoLoads ]
    /\ tx = [ t \in Threads |-> Idle ]

(* --------------------------- held operations -------------------------- *)

\* a panic (nil dereference, index out of range) ends the process: nothing of
\* its memory is left, the datastore is
Crash(op, arg, victims) ==
    /\ panicked' = TRUE
    /\ size' = 0
    /\ Refs' = [ k \in Cids |-> Nil ]
    /\ rec' = [ o \in Objs |-> NoRecord ]
    /\ bnode' = [ n \in Nodes |-> EmptyBucket ]
    /\ blist' = << >>
    /\ root' = EmptyMap
    /\ rootCID' = NoRoot
    /\ interest' = [ k \in Cids |-> NoInterest ]
    /\ fnode' = [ n \in Nodes |-> EmptyEntry ]
    /\ freqs' = << >>
    /\ mu' = FALSE
    /\ imu' = FALSE
    /\ ret' = Result(op, arg, "panic", victims, FALSE)
    /\ phase' = "other"
    /\ inserted' = << >>
    /\ track' = [ o \in Objs |-> NoTrack ]
    /\ merged' = [ k \in Cids |-> NoLoads ]
    /\ UNCHANGED << world, ub, lb, dsRoot, faults, tx >>

\* the held in-memory state after an operation
Commit(h) ==
    LET c == Collect(h)
    IN  /\ Refs' = c.Refs
        /\ size' = c.size
        /\ rec' = c.rec
        /\ bnode' = c.bnode
        /\ blist' = c.blist
        /\ panicked' = FALSE

\* Flush, changed to leave out the final ds.Put of the root
FlushWithoutPut(rt, io) ==
    /\ root' = rt
    /\ rootCID' = IF io = "putErr" THEN rootCID ELSE RootOf(rt)
    /\ dsRoot' = dsRoot

\* Flush, on the in-memory map rt
Flush(rt, io) ==
    /\ root' = rt
    /\ rootCID' = IF io = "putErr" THEN rootCID ELSE RootOf(rt)
    /\ dsRoot' = IF io = "ok" THEN RootOf(rt) ELSE dsRoot

NoFlush(rt) ==
    /\ root' = rt
    /\ UNCHANGED << rootCID, dsRoot >>

InterestUnchanged == UNCHANGED << interest, fnode, freqs, imu, merged, tx >>

\* the environment produces n more storage failures
Fault(n) ==
    /\ n <= faults
    /\ faults' = faults - n

\* whether adding ref takes the accumulated size over the upper bound
Exceeds(ref) == ub > 0 /\ lb > 0 /\ U64(size + PayloadSize(ref)) > ub

\* the size evict is asked to free, with the new size sz: line 360, changed to
\* free the distance between the bounds
EvictTargetBetweenBounds(sz) == U64(ub + UintMod - lb)

\* the size evict is asked to free, with the new size sz
EvictTarget(sz) == U64(sz + UintMod - lb)

\* SetRef: order is the order the range over each bucket's entries takes,
\* fails the objects whose sub-store ms.Delete fails to delete
SetRef(ref, io, order, fails) ==
    LET k == PayloadCID(ref)
        h0 == [ Held EXCEPT !.Refs[k] = ref, !.size = U64(@ + PayloadSize(ref)) ]
        h1 == IF Exceeds(ref)
              THEN evict(h0, EvictTarget(h0.size), order, fails)
              ELSE h0
        h2 == increment(h1, ref)
        res == IF io # "ok" THEN "err" ELSE "ok"
        new == rec[ref].bucketNode = NilNode /\ rec[ref].Freq = 0 /\ Refs[k] = Nil
        clean == new /\ res = "ok" /\ fails = {}
    IN  /\ ~ panicked /\ ~ mu
        /\ size + PayloadSize(ref) <= MaxSize
        /\ rec[ref].bucketNode # NilNode => rec[ref].Freq < MaxFreq
        /\ h2.rec[ref].BucketID <= MaxBucketID
        /\ IF h2.panicked
           THEN io = "ok" /\ fails = {} /\ Crash("SetRef", ref, h2.victims)
           ELSE /\ Fault(Cardinality(fails) + (IF io = "ok" THEN 0 ELSE 1))
                /\ Commit(h2)
                /\ IF io = "setErr" THEN NoFlush(root)
                   ELSE Flush([ root EXCEPT ![k] = Encode(h2, ref) ], io)
                /\ ret' = Result("SetRef", ref, res, h2.victims, Exceeds(ref))
                /\ phase' = SetPhase(clean, Exceeds(ref))
                /\ inserted' = IF phase' = "other" THEN << >> ELSE Append(inserted, ref)
                /\ track' = [ o \in Objs |->
                                IF o = ref /\ new /\ res = "ok" /\ h2.Refs[k] = ref
                                THEN [ live |-> TRUE, b0 |-> h2.rec[ref].BucketID, n |-> 0 ]
                                ELSE IF PayloadCID(o) = k \/ h2.Refs[PayloadCID(o)] # o
                                THEN NoTrack ELSE track[o] ]
                /\ UNCHANGED << world, ub, lb, mu >>
                /\ InterestUnchanged

\* GetRef: the error returned when k is not held
GetRefMisses(k) == Refs[k] = Nil

\* GetRef
GetRef(k, io) ==
    LET ref == Refs[k]
        h1 == increment(Held, ref)
        res == IF io # "ok" THEN "err" ELSE "ok"
    IN  /\ ~ panicked /\ ~ mu
        /\ IF GetRefMisses(k)
           THEN io = "ok" /\ UNCHANGED vars
           ELSE /\ rec[ref].bucketNode # NilNode => rec[ref].Freq < MaxFreq
                /\ h1.rec[ref].BucketID <= MaxBucketID
                /\ IF h1.panicked
                   THEN io = "ok" /\ Crash("GetRef", k, {})
                   ELSE /\ Fault(IF io = "ok" THEN 0 ELSE 1)
                        /\ Commit(h1)
                        /\ IF io = "setErr" THEN NoFlush(root)
                           ELSE Flush([ root EXCEPT ![k] = Encode(h1, ref) ], io)
                        /\ track' = [ o \in Objs |->
                                        IF PayloadCID(o) # k THEN track[o]
                                        ELSE IF o = ref /\ res = "ok" /\ track[o].live
                                        THEN [ track[o] EXCEPT !.n = @ + 1 ]
                                        ELSE NoTrack ]
                        /\ ret' = Result("GetRef", k, res, {}, FALSE)
                        /\ phase' = GetPhase(res)
                        /\ inserted' = IF phase' = "other" THEN << >> ELSE inserted
                        /\ UNCHANGED << world, ub, lb, mu >>
                        /\ InterestUnchanged

\* PeekRef: the object returned (Nil with ErrRefNotFound)
PeekRefResult(k) == Refs[k]

\* PeekRef, changed to register a read as GetRef does
PeekRefRegisteringRead(k) == GetRef(k, "ok")

\* PeekRef
PeekRef(k) ==
    /\ ~ panicked /\ ~ mu
    /\ UNCHANGED vars

\* DropRef: root.Delete reports whether the persistent map had the key
DropRefMisses(k) == root[k] = Absent

\* DropRef
DropRef(k, io) ==
    LET ref == Refs[k]
        rt == [ root EXCEPT ![k] = Absent ]
        h1 == IF ref = Nil THEN [ Held EXCEPT !.panicked = TRUE ]
              ELSE remBlistEntry(Held, rec[ref].bucketNode, ref)
        h2 == IF io = "msErr" THEN h1 ELSE [ h1 EXCEPT !.Refs[k] = Nil ]
        res == IF io # "ok" THEN "err" ELSE "ok"
    IN  /\ ~ panicked /\ ~ mu
        /\ IF io = "delErr"
           THEN /\ Fault(1)
                /\ ret' = Result("DropRef", k, "err", {}, FALSE)
                /\ UNCHANGED << world, ub, lb, size, Refs, rec, bnode, blist, root,
                                rootCID, dsRoot, mu, panicked, phase, inserted, track >>
                /\ InterestUnchanged
           ELSE IF DropRefMisses(k)
           THEN io = "ok" /\ UNCHANGED vars
           ELSE IF h1.panicked
           THEN io = "ok" /\ Crash("DropRef", k, {})
           ELSE /\ Fault(IF io = "ok" THEN 0 ELSE 1)
                /\ Commit(h2)
                /\ IF io = "msErr" THEN NoFlush(rt) ELSE Flush(rt, io)
                /\ ret' = Result("DropRef", k, res, {}, FALSE)
                /\ phase' = "other"
                /\ inserted' = << >>
                /\ track' = [ o \in Objs |->
                                IF PayloadCID(o) = k THEN NoTrack ELSE track[o] ]
                /\ UNCHANGED << world, ub, lb, mu >>
                /\ InterestUnchanged

\* the bucket entries front to back, each bucket in the order the map yields it
RECURSIVE Walk(_, _, _)
Walk(bn, l, order) ==
    IF l = << >> THEN << >>
    ELSE InOrder(bn[Head(l)].entries, order) \o Walk(bn, Tail(l), order)

\* ListRefs: the slice it returns; a write past len(idx.Refs) panics
ListRefsResult(order) ==
    LET n == Cardinality(HeldKeys)
        w == Walk(bnode, blist, order)
    IN  [ panic |-> Len(w) > n,
          refs |-> [ i \in 1 .. n |-> IF i <= Len(w) THEN w[i] ELSE Nil ] ]

\* ListRefs
ListRefs(order) ==
    /\ ~ panicked /\ ~ mu
    /\ IF ListRefsResult(order).panic THEN Crash("ListRefs", Nil, {}) ELSE UNCHANGED vars

\* Len: the number returned
LenResult == Cardinality(HeldKeys)

\* Len
IndexLen ==
    /\ ~ panicked /\ ~ mu
    /\ UNCHANGED vars

\* Root: the root cid returned
RootResult == rootCID

\* Root
Root ==
    /\ ~ panicked /\ ~ mu
    /\ UNCHANGED vars

\* Available: the value returned, in uint64 arithmetic
AvailableResult ==
    LET margin == U64(ub + UintMod - lb)
    IN  IF U64(ub + UintMod - size) < margin THEN 0 ELSE U64(ub + UintMod - size)

\* Available
Available ==
    /\ ~ panicked /\ ~ mu
    /\ UNCHANGED vars

(* ----------------------------- NewIndex ------------------------------- *)

\* the walk of the callback of root.ForEach in NewIndex that places record v,
\* starting at element e
RECURSIVE placeByID(_, _, _)
placeByID(h, v, e) ==
    IF e = NilNode
    THEN LET li == FreeNode(h)
         IN  [ h EXCEPT !.bnode[li] = [ id |-> h.rec[v].BucketID, entries |-> { v } ],
                        !.rec[v].bucketNode = li,
                        !.blist = PushBack(@, li) ]
    ELSE IF h.bnode[e].id = h.rec[v].BucketID
    THEN [ h EXCEPT !.bnode[e].entries = @ \cup { v }, !.rec[v].bucketNode = e ]
    ELSE IF h.bnode[e].id > h.rec[v].BucketID
    THEN LET li == FreeNode(h)
         IN  [ h EXCEPT !.bnode[li] = [ id |-> h.rec[v].BucketID, entries |-> { v } ],
                        !.rec[v].bucketNode = li,
                        !.blist = InsertBefore(@, li, e) ]
    ELSE placeByID(h, v, ListNext(h.blist, e))

\* the callback of root.ForEach in NewIndex for the entry (k, val)
loadEntry(h, k, val) ==
    LET v == val.obj
        h1 == [ h EXCEPT !.rec[v] = [ Freq |-> val.Freq, BucketID |-> val.BucketID,
                                      bucketNode |-> NilNode ],
                         !.Refs[k] = v,
                         !.size = U64(@ + PayloadSize(v)) ]
    IN  IF Front(h1.blist) = NilNode
        THEN LET li == FreeNode(h1)
             IN  [ h1 EXCEPT !.bnode[li] = [ id |-> val.BucketID, entries |-> { v } ],
                             !.rec[v].bucketNode = li,
                             !.blist = PushFront(@, li) ]
        ELSE placeByID(h1, v, Front(h1.blist))

RECURSIVE loadAll(_, _, _)
loadAll(h, m, keys) ==
    IF keys = << >> THEN h
    ELSE IF m[Head(keys)] = Absent THEN loadAll(h, m, Tail(keys))
    ELSE loadAll(loadEntry(h, Head(keys), m[Head(keys)]), m, Tail(keys))

\* NewIndex over the datastore the index was persisted to (a restart): the
\* records are decoded into new objects, and the callers' objects are new too.
\* keys is the order ForEach visits the map in
NewIndex(keys) ==
    LET m == dsRoot.map
        h0 == [ Refs |-> [ k \in Cids |-> Nil ], size |-> 0,
                rec |-> [ o \in Objs |-> NoRecord ],
                bnode |-> [ n \in Nodes |-> EmptyBucket ],
                blist |-> << >>, panicked |-> FALSE, evicted |-> 0, victims |-> {} ]
    IN  /\ Commit(loadAll(h0, m, keys))
        /\ root' = m
        /\ rootCID' = dsRoot
        /\ UNCHANGED << world, ub, lb, dsRoot, faults >>
        /\ interest' = [ k \in Cids |-> NoInterest ]
        /\ fnode' = [ n \in Nodes |-> EmptyEntry ]
        /\ freqs' = << >>
        /\ mu' = FALSE
        /\ imu' = FALSE
        /\ ret' = Result("NewIndex", Nil, "ok", {}, FALSE)
        /\ phase' = "other"
        /\ inserted' = << >>
        /\ track' = [ o \in Objs |-> NoTrack ]
        /\ merged' = [ k \in Cids |-> NoLoads ]
        /\ UNCHANGED tx

(* --------------------------- interest list ---------------------------- *)

\* the interest state a LoadInterest works on; stuck: a Lock never returns
Wanted == [ interest |-> interest, fnode |-> fnode, freqs |-> freqs,
            mu |-> mu, stuck |-> FALSE, merged |-> merged ]

\* the roots a remote peer can publish: content id -> Freq (NoEntry: no entry)
NoEntry == 0 - 1
\* (the remote peers hold A and B)
RemoteRoots ==
    { r \in [ Cids -> { NoEntry } \cup (0 .. MaxRemoteFreq) ] : r["C"] = NoEntry }
RemoteKeys(r) == { k \in Cids : r[k] # NoEntry }
\* PayloadSize of the record a remote root carries for k
RemoteSize(k) == 100

FreeEntry(w) ==
    CHOOSE n \in Nodes :
        /\ ~ Linked(w.freqs, n)
        /\ \A k \in Cids : w.interest[k].bucketNode # n
        /\ \A m \in Nodes :
              (~ Linked(w.freqs, m) /\ \A k \in Cids : w.interest[k].bucketNode # m)
              => n <= m

\* as Collect, for the elements of freqs
CollectEntries(w) ==
    LET gone == { n \in Nodes : ~ Linked(w.freqs, n)
                                 /\ \E k \in Cids : w.interest[k].bucketNode = n }
        name(n) == IF n = NilNode THEN NilNode
                   ELSE IF Linked(w.freqs, n) THEN IndexOf(w.freqs, n)
                   ELSE Len(w.freqs) + Cardinality({ m \in gone : m <= n })
        used == Range(w.freqs) \cup gone
    IN  [ w EXCEPT
            !.fnode = [ j \in Nodes |->
                          IF \E n \in used : name(n) = j
                          THEN w.fnode[CHOOSE n \in used : name(n) = j]
                          ELSE EmptyEntry ],
            !.interest = [ k \in Cids |-> [ w.interest[k] EXCEPT !.bucketNode = name(@) ] ],
            !.freqs = [ j \in 1 .. Len(w.freqs) |-> j ] ]

\* remFreqEntry, changed to leave an emptied listEntry in the list
remFreqEntryKeepingEmpty(w, place, k) ==
    [ w EXCEPT !.fnode[place].entries = @ \ { k } ]

\* remFreqEntry
remFreqEntry(w, place, k) ==
    LET left == w.fnode[place].entries \ { k }
    IN  [ w EXCEPT !.fnode[place].entries = left,
                   !.freqs = IF left = {} THEN ListRemove(w.freqs, place) ELSE @ ]

\* newListEntry: a listEntry of frequency f holding k, as element li of the
\* list after the given insertion
newListEntry(w, k, f, li, linked) ==
    [ w EXCEPT !.fnode[li] = [ freq |-> f, entries |-> { k } ],
               !.interest[k].bucketNode = li,
               !.freqs = linked ]

\* the walk of LoadInterest that places k at frequency f, starting at element e
RECURSIVE placeByFreq(_, _, _, _)
placeByFreq(w, k, f, e) ==
    IF e = NilNode
    THEN LET li == FreeEntry(w) IN newListEntry(w, k, f, li, PushBack(w.freqs, li))
    ELSE IF w.fnode[e].freq = f
    THEN [ w EXCEPT !.fnode[e].entries = @ \cup { k }, !.interest[k].bucketNode = e ]
    ELSE IF w.fnode[e].freq > f
    THEN LET li == FreeEntry(w) IN newListEntry(w, k, f, li, InsertBefore(w.freqs, li, e))
    ELSE placeByFreq(w, k, f, ListNext(w.freqs, e))

\* nextFreq, changed to take the frequency of the root loaded last
nextFreqOfLoad(ref, f) == f

\* nextFreq := ref.Freq + v.Freq
nextFreq(ref, f) == ref.Freq + f

\* the callback of root.ForEach in LoadInterest, for one remote entry (k, f)
loadInterestEntry(w, k, f) ==
    IF w.mu THEN [ w EXCEPT !.stuck = TRUE ]
    ELSE IF Refs[k] # Nil THEN [ w EXCEPT !.mu = TRUE ]
    ELSE IF w.interest[k].present
    THEN LET ref == w.interest[k]
             currentPlace == ref.bucketNode
             nxt == nextFreq(ref, f)
         IN  IF nxt = ref.Freq THEN w
             ELSE remFreqEntry(
                      placeByFreq([ w EXCEPT !.interest[k].Freq = nxt ],
                                  k, nxt, currentPlace),
                      currentPlace, k)
    ELSE LET w1 == [ w EXCEPT !.interest[k] =
                                [ present |-> TRUE, Freq |-> f, bucketNode |-> NilNode ] ]
         IN  IF Front(w1.freqs) = NilNode
             THEN LET li == FreeEntry(w1) IN newListEntry(w1, k, f, li, PushFront(w1.freqs, li))
             ELSE placeByFreq(w1, k, f, Front(w1.freqs))

RECURSIVE loadInterestAll(_, _, _)
loadInterestAll(w, remote, keys) ==
    IF keys = << >> \/ w.stuck THEN w
    ELSE LET k == Head(keys)
             w1 == CollectEntries(loadInterestEntry(w, k, remote[k]))
             w2 == IF w1.stuck THEN w1
                   ELSE [ w1 EXCEPT !.merged[k] =
                                      [ seen |-> TRUE, sum |-> @.sum + remote[k] ] ]
         IN  loadInterestAll(w2, remote, Tail(keys))

HeldUnchanged ==
    UNCHANGED << world, ub, lb, size, Refs, rec, bnode, blist, root, rootCID, dsRoot,
                 panicked, faults, phase, inserted, track, tx >>

\* LoadInterest: remote is the map at r, keys the order ForEach visits it in.
\* A Lock of a locked mutex never returns: the call is stuck holding imu
LoadInterest(remote, keys) ==
    LET w == loadInterestAll(Wanted, remote, keys)
    IN  /\ world.interest /\ ~ panicked /\ ~ imu
        /\ \A k \in Cids : w.interest[k].Freq <= MaxInterestFreq
        /\ interest' = w.interest
        /\ fnode' = w.fnode
        /\ freqs' = w.freqs
        /\ mu' = w.mu
        /\ imu' = w.stuck
        /\ merged' = w.merged
        /\ ret' = Result("LoadInterest", Nil, IF w.stuck THEN "stuck" ELSE "ok", {}, FALSE)
        /\ HeldUnchanged

\* DropInterest
DropInterest(k) ==
    LET ref == interest[k]
        w == CollectEntries(
                 [ remFreqEntry(Wanted, ref.bucketNode, k) EXCEPT !.interest[k] = NoInterest ])
    IN  /\ world.interest /\ ~ panicked /\ ~ imu
        /\ IF ~ ref.present THEN UNCHANGED vars
           ELSE /\ interest' = w.interest
                /\ fnode' = w.fnode
                /\ freqs' = w.freqs
                /\ ret' = Result("DropInterest", k, "ok", {}, FALSE)
                /\ merged' = [ merged EXCEPT ![k] = NoLoads ]
                /\ UNCHANGED << mu, imu >>
                /\ HeldUnchanged

\* InterestLen: the number returned
InterestLenResult == Cardinality({ k \in Cids : interest[k].present })

\* InterestLen
InterestLen ==
    /\ world.interest /\ ~ panicked /\ ~ imu
    /\ UNCHANGED vars

\* Interesting, the inner loop with space available: todo is what is left of
\* the range over the entries of one listEntry
RECURSIVE fillEntries(_, _, _, _)
fillEntries(todo, out, added, av) ==
    IF todo = << >> THEN [ out |-> out, added |-> added, done |-> FALSE ]
    ELSE LET k == Head(todo)
             sum == U64(added + RemoteSize(k))
         IN  IF sum >= av
             THEN [ out |-> out \cup { k }, added |-> sum, done |-> TRUE ]
             ELSE fillEntries(Tail(todo), out \cup { k }, sum, av)

\* Interesting, the outer loop with space available, at element e of freqs
RECURSIVE fillFrom(_, _, _, _, _)
fillFrom(e, out, added, av, order) ==
    IF e = NilNode THEN out
    ELSE LET r == fillEntries(InOrder(fnode[e].entries, order), out, added, av)
         IN  IF r.done THEN r.out
             ELSE fillFrom(ListPrev(freqs, e), r.out, r.added, av, order)

\* Interesting, after av := idx.Available(): what it returns; order is the
\* order the ranges over the entries of a listEntry take. "err" is the error
\* "nothing interesting", "panic" the dereference of the nil front of an empty
\* blist
InterestingWith(av, order) ==
    LET front == Front(blist)
        e == Back(freqs)
    IN  IF av > 0
        THEN [ res |-> "ok", out |-> fillFrom(e, {}, 0, av, order) ]
        ELSE IF e = NilNode THEN [ res |-> "err", out |-> {} ]
        ELSE IF front = NilNode THEN [ res |-> "panic", out |-> {} ]
        ELSE IF /\ \E ref \in bnode[front].entries : fnode[e].freq > rec[ref].Freq
                /\ fnode[e].entries # {}
        THEN [ res |-> "ok", out |-> { Head(InOrder(fnode[e].entries, order)) } ]
        ELSE [ res |-> "err", out |-> {} ]

\* Interesting: what it returns when Available returns
InterestingResult(order) == InterestingWith(AvailableResult, order)

\* Interesting. With the held mutex locked the Lock of Available never
\* returns: the call is stuck holding imu
Interesting(order) ==
    /\ world.interest /\ ~ panicked /\ ~ imu
    /\ IF mu
       THEN /\ imu' = TRUE
            /\ ret' = Result("Interesting", Nil, "stuck", {}, FALSE)
            /\ UNCHANGED << interest, fnode, freqs, mu, merged >>
            /\ HeldUnchanged
       ELSE IF InterestingResult(order).res = "panic"
       THEN Crash("Interesting", Nil, {})
       ELSE UNCHANGED vars

(* -------------------------- the specification ------------------------- *)

Next ==
    \/ \E ref \in world.objs, io \in SetResults :
          \E order \in (IF Exceeds(ref) THEN OrdersOf(Listed) ELSE { << >> }),
             fails \in (IF Exceeds(ref) /\ faults > 0 THEN SUBSET Listed ELSE { {} }) :
             SetRef(ref, io, order, fails)
    \/ \E k \in Cids, io \in SetResults : GetRef(k, io)
    \/ \E k \in Cids : PeekRef(k)
    \/ \E k \in Cids, io \in DropResults : DropRef(k, io)
    \/ \E order \in OrdersOf(Listed) : ListRefs(order)
    \/ IndexLen
    \/ Root
    \/ Available
    \/ \E keys \in CidOrders : NewIndex(keys)
    \/ \E remote \in RemoteRoots :
          \E keys \in OrdersOf(RemoteKeys(remote)) : LoadInterest(remote, keys)
    \/ \E k \in Cids : DropInterest(k)
    \/ InterestLen
    \/ \E order \in CidOrders : Interesting(order)

Spec == Init /\ [][Next]_vars

(* ------------------- concurrent SetRef calls -------------------------- *)

\* the runs of concurrent SetRef calls: no bounds, or bounds the calls stay
\* within
TxWorlds ==
    { World(0, 0, Threads, 0, FALSE), World(MaxSize, MaxSize, Threads, 0, FALSE) }

InitTx ==
    /\ world \in TxWorlds
    /\ ub = world.ub
    /\ lb = world.lb
    /\ size = 0
    /\ Refs = [ k \in Cids |-> Nil ]
    /\ rec = [ o \in Objs |-> NoRecord ]
    /\ bnode = [ n \in Nodes |-> EmptyBucket ]
    /\ blist = << >>
    /\ root = EmptyMap
    /\ rootCID = NoRoot
    /\ dsRoot = NoRoot
    /\ interest = [ k \in Cids |-> NoInterest ]
    /\ fnode = [ n \in Nodes |-> EmptyEntry ]
    /\ freqs = << >>
    /\ mu = FALSE
    /\ imu = FALSE
    /\ panicked = FALSE
    /\ faults = 0
    /\ ret = Result("NewIndex", Nil, "ok", {}, FALSE)
    /\ phase = "other"
    /\ inserted = << >>
    /\ track = [ o \in Objs |-> NoTrack ]
    /\ merged = [ k \in Cids |-> NoLoads ]
    /\ tx = [ t \in Threads |-> [ Idle EXCEPT !.pc = "start" ] ]

\* thread t moves from position from to position to
TxGoes(t, from, to) ==
    /\ tx[t].pc = from
    /\ tx' = [ tx EXCEPT ![t].pc = to ]

TxHistory == UNCHANGED << world, ub, lb, faults, ret, phase, inserted, track, panicked >>

\* SetRef of thread t: idx.mu.Lock() returns once the mutex is free
TxLock(t) ==
    /\ ~ mu
    /\ TxGoes(t, "start", "locked")
    /\ mu' = TRUE
    /\ UNCHANGED << size, Refs, rec, bnode, blist, root, rootCID, dsRoot >>
    /\ TxHistory /\ UNCHANGED << interest, fnode, freqs, imu, merged >>

\* idx.Refs[k] = ref; idx.size += ref.PayloadSize
TxStore(t) ==
    /\ TxGoes(t, "locked", "stored")
    /\ Refs' = [ Refs EXCEPT ![PayloadCID(t)] = t ]
    /\ size' = U64(size + PayloadSize(t))
    /\ UNCHANGED << rec, bnode, blist, root, rootCID, dsRoot, mu >>
    /\ TxHistory /\ UNCHANGED << interest, fnode, freqs, imu, merged >>

\* the bounds test (evict when the size is over the upper bound) and
\* idx.increment(ref)
TxIncrement(t, order) ==
    LET h1 == IF ub > 0 /\ lb > 0 /\ size > ub
              THEN evict(Held, EvictTarget(size), order, {})
              ELSE Held
        h2 == Collect(increment(h1, t))
    IN  /\ TxGoes(t, "stored", "placed")
        /\ ~ h2.panicked
        /\ Refs' = h2.Refs
        /\ size' = h2.size
        /\ rec' = h2.rec
        /\ bnode' = h2.bnode
        /\ blist' = h2.blist
        /\ UNCHANGED << root, rootCID, dsRoot, mu >>
        /\ TxHistory /\ UNCHANGED << interest, fnode, freqs, imu, merged >>

\* idx.root.Set(k, ref)
TxRootSet(t) ==
    /\ TxGoes(t, "placed", "set")
    /\ root' = [ root EXCEPT ![PayloadCID(t)] = Encode(Held, t) ]
    /\ UNCHANGED << size, Refs, rec, bnode, blist, rootCID, dsRoot, mu >>
    /\ TxHistory /\ UNCHANGED << interest, fnode, freqs, imu, merged >>

\* Flush: r := idx.store.Put(idx.root)
TxPut(t) ==
    /\ tx[t].pc = "set"
    /\ tx' = [ tx EXCEPT ![t].pc = "put", ![t].r = RootOf(root) ]
    /\ UNCHANGED << size, Refs, rec, bnode, blist, root, rootCID, dsRoot, mu >>
    /\ TxHistory /\ UNCHANGED << interest, fnode, freqs, imu, merged >>

\* Flush: idx.rootCID = r
TxRootCID(t) ==
    /\ TxGoes(t, "put", "assigned")
    /\ rootCID' = tx[t].r
    /\ UNCHANGED << size, Refs, rec, bnode, blist, root, dsRoot, mu >>
    /\ TxHistory /\ UNCHANGED << interest, fnode, freqs, imu, merged >>

\* Flush: idx.ds.Put(KIndex, r)
TxDsPut(t) ==
    /\ TxGoes(t, "assigned", "flushed")
    /\ dsRoot' = tx[t].r
    /\ UNCHANGED << size, Refs, rec, bnode, blist, root, rootCID, mu >>
    /\ TxHistory /\ UNCHANGED << interest, fnode, freqs, imu, merged >>

\* the return, changed to leave the mutex locked
TxReturnLocked(t) ==
    /\ TxGoes(t, "flushed", "done")
    /\ UNCHANGED << size, Refs, rec, bnode, blist, root, rootCID, dsRoot, mu >>
    /\ TxHistory /\ UNCHANGED << interest, fnode, freqs, imu, merged >>

\* the deferred idx.mu.Unlock(), and the return
TxUnlock(t) ==
    /\ TxGoes(t, "flushed", "done")
    /\ mu' = FALSE
    /\ UNCHANGED << size, Refs, rec, bnode, blist, root, rootCID, dsRoot >>
    /\ TxHistory /\ UNCHANGED << interest, fnode, freqs, imu, merged >>

\* the steps of the SetRef call of thread t
TxStep(t) ==
    \/ TxLock(t)
    \/ TxStore(t)
    \/ \E order \in OrdersOf(Listed) : TxIncrement(t, order)
    \/ TxRootSet(t)
    \/ TxPut(t)
    \/ TxRootCID(t)
    \/ TxDsPut(t)
    \/ TxUnlock(t)

NextTx == \E t \in Threads : TxStep(t)

\* every thread that can take a step eventually takes one
SpecTx == InitTx /\ [][NextTx]_vars /\ \A t \in Threads : WF_vars(TxStep(t))

(* ------------- interest calls concurrent with held calls -------------- *)

\* the threads of a mix: one calls SetRef, one Interesting, one a call of its
\* choice (DropInterest, InterestLen, GetRef, or PeekRef, Len, Root, Available)
Setter == 1
Seeker == 2
Caller == 3

\* the runs of a mix: the callers hold B before the threads start
MixWorlds == { World(0, 0, { 2 }, 0, TRUE), World(200, 100, { 2 }, 0, TRUE) }

InitMix ==
    /\ world \in MixWorlds
    /\ ub = world.ub
    /\ lb = world.lb
    /\ size = 0
    /\ Refs = [ k \in Cids |-> Nil ]
    /\ rec = [ o \in Objs |-> NoRecord ]
    /\ bnode = [ n \in Nodes |-> EmptyBucket ]
    /\ blist = << >>
    /\ root = EmptyMap
    /\ rootCID = NoRoot
    /\ dsRoot = NoRoot
    /\ interest = [ k \in Cids |-> NoInterest ]
    /\ fnode = [ n \in Nodes |-> EmptyEntry ]
    /\ freqs = << >>
    /\ mu = FALSE
    /\ imu = FALSE
    /\ panicked = FALSE
    /\ faults = 0
    /\ ret = Result("NewIndex", Nil, "ok", {}, FALSE)
    /\ phase = "other"
    /\ inserted = << >>
    /\ track = [ o \in Objs |-> NoTrack ]
    /\ merged = [ k \in Cids |-> NoLoads ]
    /\ tx = [ t \in Threads |-> [ Idle EXCEPT !.pc = "start" ] ]

\* no thread has started its call
AllAtStart == \A t \in Threads : tx[t].pc = "start"

\* before the threads start, SetRef and LoadInterest calls run one at a time,
\* and return
Prelude ==
    /\ AllAtStart
    /\ \/ \E ref \in world.objs :
             \E order \in (IF Exceeds(ref) THEN OrdersOf(Listed) ELSE { << >> }) :
                SetRef(ref, "ok", order, {})
       \/ \E remote \in RemoteRoots :
             \E keys \in OrdersOf(RemoteKeys(remote)) :
                LoadInterest(remote, keys) /\ ~ imu'

\* what a step of a thread that touches neither held nor interest data leaves
MixHeldSame == UNCHANGED << size, Refs, rec, bnode, blist, root, rootCID, dsRoot >>
MixInterestSame == UNCHANGED << interest, fnode, freqs, merged >>

\* idx.imu.Lock() of an interest call returns once the mutex is free
MixLockInterest(t, to) ==
    /\ ~ imu
    /\ TxGoes(t, "start", to)
    /\ imu' = TRUE
    /\ UNCHANGED mu /\ MixHeldSame /\ MixInterestSame /\ TxHistory

\* the deferred idx.imu.Unlock() of an interest call, and the return
MixUnlockInterest(t, from) ==
    /\ TxGoes(t, from, "done")
    /\ imu' = FALSE
    /\ UNCHANGED mu /\ MixHeldSame /\ MixInterestSame /\ TxHistory

\* idx.mu.Lock() returns once the mutex is free
MixLockHeld(t, from, to) ==
    /\ ~ mu
    /\ TxGoes(t, from, to)
    /\ mu' = TRUE
    /\ UNCHANGED imu /\ MixHeldSame /\ MixInterestSame /\ TxHistory

\* the deferred idx.mu.Unlock()
MixUnlockHeld(t, from, to) ==
    /\ TxGoes(t, from, to)
    /\ mu' = FALSE
    /\ UNCHANGED imu /\ MixHeldSame /\ MixInterestSame /\ TxHistory

\* Interesting, av := idx.Available(): the body of Available under the mutex
SeekAvailable(t) ==
    /\ tx[t].pc = "available"
    /\ tx' = [ tx EXCEPT ![t].pc = "measured", ![t].av = AvailableResult ]
    /\ UNCHANGED << mu, imu >> /\ MixHeldSame /\ MixInterestSame /\ TxHistory

\* whether the rest of Interesting reads idx.blist, a bucket's entries and the
\* Freq of held records
SeekReadsHeld(t) == tx[t].av = 0 /\ Back(freqs) # NilNode

\* Interesting, from "if av > 0" to the return statement. The reads of the
\* held bucket list are made without the held mutex: while another thread is
\* inside a held operation they race with its writes, and the call returns
\* what the lists hold at that moment or crashes (raced)
SeekCollect(t, order, raced) ==
    LET r == InterestingWith(tx[t].av, order)
    IN  /\ tx[t].pc = "released"
        /\ raced => (mu /\ SeekReadsHeld(t))
        /\ IF raced \/ r.res = "panic"
           THEN Crash("Interesting", Nil, {})
           ELSE /\ tx' = [ tx EXCEPT ![t].pc = "collected" ]
                /\ ret' = Result("Interesting", Nil, r.res, {}, FALSE)
                /\ UNCHANGED << world, ub, lb, faults, phase, inserted, track, panicked >>
                /\ UNCHANGED << mu, imu >> /\ MixHeldSame /\ MixInterestSame

\* the steps of the Interesting call of thread t
SeekStep(t) ==
    \/ MixLockInterest(t, "seeking")
    \/ MixLockHeld(t, "seeking", "available")
    \/ SeekAvailable(t)
    \/ MixUnlockHeld(t, "measured", "released")
    \/ \E order \in CidOrders, raced \in BOOLEAN : SeekCollect(t, order, raced)
    \/ MixUnlockInterest(t, "collected")

\* DropInterest(k), between Lock and Unlock
CallDropInterest(t, k) ==
    LET ref == interest[k]
        w == CollectEntries(
                 [ remFreqEntry(Wanted, ref.bucketNode, k) EXCEPT !.interest[k] = NoInterest ])
    IN  /\ TxGoes(t, "wanted", "answered")
        /\ IF ~ ref.present THEN MixInterestSame
           ELSE /\ interest' = w.interest
                /\ fnode' = w.fnode
                /\ freqs' = w.freqs
                /\ merged' = [ merged EXCEPT ![k] = NoLoads ]
        /\ UNCHANGED << mu, imu >> /\ MixHeldSame /\ TxHistory

\* InterestLen, between Lock and Unlock
CallInterestLen(t) ==
    /\ TxGoes(t, "wanted", "answered")
    /\ UNCHANGED << mu, imu >> /\ MixHeldSame /\ MixInterestSame /\ TxHistory

\* PeekRef, Len, Root or Available, between Lock and Unlock
CallRead(t) ==
    /\ TxGoes(t, "held", "returned")
    /\ UNCHANGED << mu, imu >> /\ MixHeldSame /\ MixInterestSame /\ TxHistory

\* GetRef(k) of a held key, between Lock and Unlock, every storage call
\* succeeding
CallGetRef(t, k) ==
    LET ref == Refs[k]
        h1 == Collect(increment(Held, ref))
    IN  /\ TxGoes(t, "held", "returned")
        /\ ~ GetRefMisses(k)
        /\ rec[ref].bucketNode # NilNode => rec[ref].Freq < MaxFreq
        /\ h1.rec[ref].BucketID <= MaxBucketID
        /\ ~ h1.panicked
        /\ Refs' = h1.Refs
        /\ size' = h1.size
        /\ rec' = h1.rec
        /\ bnode' = h1.bnode
        /\ blist' = h1.blist
        /\ Flush([ root EXCEPT ![k] = Encode(h1, ref) ], "ok")
        /\ UNCHANGED << mu, imu >> /\ MixInterestSame /\ TxHistory

\* the steps of the call of thread t
CallStep(t) ==
    \/ MixLockInterest(t, "wanted")
    \/ \E k \in Cids : CallDropInterest(t, k)
    \/ CallInterestLen(t)
    \/ MixUnlockInterest(t, "answered")
    \/ MixLockHeld(t, "start", "held")
    \/ CallRead(t)
    \/ \E k \in Cids : CallGetRef(t, k)
    \/ MixUnlockHeld(t, "returned", "done")

\* a step of a thread; after a panic there is no process left to take one
MixStep(t) ==
    /\ ~ panicked
    /\ \/ t = Setter /\ TxStep(t) /\ UNCHANGED imu
       \/ t = Seeker /\ SeekStep(t)
       \/ t = Caller /\ CallStep(t)

NextMix ==
    \/ Prelude
    \/ \E t \in Threads : MixStep(t)

SpecMix == InitMix /\ [][NextMix]_vars

(* ------------------------------ properties ---------------------------- *)

\* the sum of the payload sizes of the objects of S
RECURSIVE SumOfSizes(_)
SumOfSizes(S) ==
    IF S = {} THEN 0
    ELSE LET o == CHOOSE x \in S : TRUE IN PayloadSize(o) + SumOfSizes(S \ { o })

\* C1: at every operation boundary the accumulated size is the sum of the
\* payload sizes of the records in the held map, also after SetRef on a key
\* already held and after DropRef (SetRef A; DropRef A leaves size 0).
C1_SizeIsSumOfHeld == size = SumOfSizes(HeldObjs)

\* C2: at every operation boundary every record of the held map is an entry
\* of exactly one bucket, every bucket entry is a record of the held map, and
\* ListRefs returns exactly the held records, without nil, for whatever order
\* the buckets' entries are ranged over.
C2_HeldMapMatchesBuckets ==
    /\ \A k \in HeldKeys :
          Cardinality({ n \in Range(blist) : Refs[k] \in bnode[n].entries }) = 1
    /\ \A o \in Listed : Refs[PayloadCID(o)] = o
    /\ \A order \in OrdersOf(Listed) :
          LET r == ListRefsResult(order)
          IN  /\ ~ r.panic
              /\ \A i \in DOMAIN r.refs : r.refs[i] # Nil
              /\ Range(r.refs) = HeldObjs

\* C3: after every operation and after a reload the bucket ids are strictly
\* ascending front to back, no bucket is empty, and the bucketNode of every
\* record is a linked bucket whose id is the record's BucketID.
C3_BucketListWellFormed ==
    /\ \A i \in 1 .. Len(blist) - 1 : bnode[blist[i]].id < bnode[blist[i + 1]].id
    /\ \A n \in Range(blist) : bnode[n].entries # {}
    /\ \A o \in HeldObjs \cup Listed :
          /\ Linked(blist, rec[o].bucketNode)
          /\ bnode[rec[o].bucketNode].id = rec[o].BucketID

\* whether the slice r holds records only, in non-decreasing order of Freq
ByFreq(r) ==
    /\ \A i \in DOMAIN r : r[i] # Nil
    /\ \A i, j \in DOMAIN r : i < j => rec[r[i]].Freq <= rec[r[j]].Freq

\* whether records of r with the same Freq come in the order of their insertion
TiesByInsertion(r) ==
    \A i, j \in DOMAIN r :
        (i < j /\ r[i] # Nil /\ r[j] # Nil /\ rec[r[i]].Freq = rec[r[j]].Freq)
            => /\ Linked(inserted, r[i]) /\ Linked(inserted, r[j])
               /\ IndexOf(inserted, r[i]) < IndexOf(inserted, r[j])

\* C4, as the specification states it: after any sequence of SetRef and GetRef
\* calls without eviction, ListRefs yields the records in non-decreasing order
\* of Freq and, among records of the same Freq, in the order they were
\* inserted.
C4_ListRefsByFreqThenInsertion ==
    phase \in { "sets", "gets", "mixed" } =>
        \A order \in OrdersOf(Listed) :
            LET r == ListRefsResult(order)
            IN  ~ r.panic /\ ByFreq(r.refs) /\ TiesByInsertion(r.refs)

\* whether the slice r holds records only, in non-decreasing order of bucket id
ByBucket(r) ==
    /\ \A i \in DOMAIN r : r[i] # Nil
    /\ \A i, j \in DOMAIN r : i < j => rec[r[i]].BucketID <= rec[r[j]].BucketID

\* C4, amended: after any sequence of SetRef and GetRef calls without
\* eviction, ListRefs yields every held record once, in non-decreasing order
\* of bucket id and in any order within a bucket; when every SetRef call came
\* before every GetRef call that is the non-decreasing order of Freq.
C4_ListRefsByBucket ==
    phase \in { "sets", "gets", "mixed" } =>
        \A order \in OrdersOf(Listed) :
            LET r == ListRefsResult(order)
            IN  /\ ~ r.panic
                /\ Range(r.refs) = HeldObjs
                /\ ByBucket(r.refs)
                /\ phase # "mixed" => ByFreq(r.refs)

\* C4: records of three frequencies are listed after reads that followed the
\* insertions
C4_Witness ==
    /\ phase = "gets"
    /\ Cardinality({ rec[o].Freq : o \in HeldObjs }) = 3
    /\ Len(blist) = 3

\* the entry of key k in the map a root addresses
Persisted(r, k) == r.map[k]

\* C5: a record has Freq 0 right after its insertion, and after n successful
\* GetRef calls on its key (no other call on that key in between) its Freq is
\* n, in memory and in the persisted entry, and its bucket id is the id it
\* was inserted with plus n.
C5_FreqCountsReads ==
    \A o \in Objs :
        track[o].live =>
            /\ Refs[PayloadCID(o)] = o
            /\ rec[o].Freq = track[o].n
            /\ rec[o].BucketID = track[o].b0 + track[o].n
            /\ Linked(blist, rec[o].bucketNode)
            /\ bnode[rec[o].bucketNode].id = track[o].b0 + track[o].n
            /\ root[PayloadCID(o)] = [ obj |-> o, Freq |-> track[o].n,
                                       BucketID |-> track[o].b0 + track[o].n ]
            /\ Persisted(rootCID, PayloadCID(o)).Freq = track[o].n
            /\ Persisted(dsRoot, PayloadCID(o)).Freq = track[o].n

\* C5: a record was read twice since its insertion, another record was not
C5_Witness ==
    \E o, p \in Objs :
        /\ track[o].live /\ track[o].n = 2
        /\ track[p].live /\ track[p].n = 0

\* C6: with both bounds positive, a SetRef call that takes the size over the
\* upper bound returns with the size at or below the lower bound.
C6_SetRefEvictsToLowerBound ==
    (ret.op = "SetRef" /\ ret.res = "ok" /\ ret.exceeded) => size <= lb

\* C7: the records a SetRef call evicts are a prefix of the front to back
\* order (no surviving record that was held before has a smaller bucket id
\* than an evicted one), and the record being inserted is not among them.
C7_EvictsLeastFrequentPrefix ==
    ret.op = "SetRef" =>
        /\ ret.arg \notin ret.victims
        /\ \A v \in ret.victims \ { ret.arg }, s \in HeldObjs \ { ret.arg } :
              rec[v].BucketID <= rec[s].BucketID

\* the state right after scenario S3: bounds (250, 150), A, B and C of 100
\* bytes inserted in that order, nothing else
AfterS3 ==
    /\ ub = 250 /\ lb = 150
    /\ phase = "evicted"
    /\ inserted = << 1, 2, 3 >>

\* C8, as the specification states it: the insertion of C evicts exactly A,
\* the held map is { B, C } and the size 200.
C8_S3EvictsA ==
    AfterS3 => ret.victims = { 1 } /\ HeldKeys = { "B", "C" } /\ size = 200

\* C8, amended: the insertion of C asks evict for 300 - 150 = 150 bytes, so it
\* evicts A and B; the held map is { C } and the size 100.
C8_S3EvictsAAndB ==
    AfterS3 => ret.victims = { 1, 2 } /\ HeldKeys = { "C" } /\ size = 100

\* C8: scenario S3 has run
C8_Witness == AfterS3 /\ ret.op = "SetRef" /\ ret.arg = 3 /\ ret.exceeded

\* C9: Available returns ub - size if that exceeds ub - lb over the integers
\* and 0 otherwise; in particular 0 when size exceeds ub, as under the bounds
\* (0, 0) of scenario S1, and never more than ub.
C9_AvailableOverIntegers ==
    /\ AvailableResult = (IF ub - size > ub - lb THEN ub - size ELSE 0)
    /\ AvailableResult <= ub

\* C10: at every operation boundary no key is in both the held map and the
\* interest map.
C10_HeldAndInterestDisjoint ==
    \A k \in Cids : ~ (Refs[k] # Nil /\ interest[k].present)

\* the buckets of a list front to back: their ids and the keys of their entries
BucketGroups(bl, bn) ==
    [ i \in 1 .. Len(bl) |->
        [ id |-> bn[bl[i]].id, keys |-> { PayloadCID(o) : o \in bn[bl[i]].entries } ] ]

\* C11: after successful SetRef, GetRef and DropRef calls (evictions
\* included), NewIndex over the same datastore yields the held records the
\* index had, with the same Freq and BucketID, the same front to back bucket
\* grouping and the same accumulated size.
C11_ReloadYieldsSameIndex ==
    [][ (ret'.op = "NewIndex" /\ ~ panicked /\ faults = world.faults)
           => /\ HeldKeys' = HeldKeys
              /\ \A k \in HeldKeys :
                    /\ Refs'[k] # Nil
                    /\ rec'[Refs'[k]].Freq = rec[Refs[k]].Freq
                    /\ rec'[Refs'[k]].BucketID = rec[Refs[k]].BucketID
              /\ BucketGroups(blist', bnode') = BucketGroups(blist, bnode)
              /\ size' = size ]_vars

\* the frequency of the interest list entry the record of key k is placed in
\* (NoEntry when it is in no linked entry)
PlacedAt(it, fn, fl, k) ==
    IF Linked(fl, it[k].bucketNode) /\ k \in fn[it[k].bucketNode].entries
    THEN fn[it[k].bucketNode].freq
    ELSE NoEntry

\* C12: for a key that is not held, the Freq of its interest record is the
\* sum of the Freq the loaded remote roots carried for it, and a load whose
\* entries all carry Freq 0 leaves the Freq and the placement of the interest
\* records already present unchanged.
C12_InterestMerge ==
    /\ [](\A k \in Cids :
            (merged[k].seen /\ Refs[k] = Nil)
                => /\ interest[k].present
                   /\ interest[k].Freq = merged[k].sum
                   /\ PlacedAt(interest, fnode, freqs, k) = merged[k].sum)
    /\ [][ (ret'.op = "LoadInterest" /\ \A k \in Cids : merged'[k].sum = merged[k].sum)
              => \A k \in Cids :
                    interest[k].present
                        => /\ interest'[k].present
                           /\ interest'[k].Freq = interest[k].Freq
                           /\ PlacedAt(interest', fnode', freqs', k)
                                  = PlacedAt(interest, fnode, freqs, k) ]_vars

\* C12: two keys were loaded, one with a sum of 2 over two loads and one with
\* a sum of 1, neither held
C12_Witness ==
    /\ merged["A"].seen /\ merged["A"].sum = 2 /\ Refs["A"] = Nil
    /\ merged["B"].seen /\ merged["B"].sum = 1 /\ Refs["B"] = Nil
    /\ interest["A"].Freq = 2 /\ interest["B"].Freq = 1
    /\ ~ imu

\* C13: in every state GetRef, PeekRef and DropRef of a key that is not in the
\* held map find nothing (ErrRefNotFound), do not crash and leave the held
\* map, the bucket list, the size and the persistent map as they were.
C13_AbsentKeyIsNotFound ==
    /\ [](\A k \in Cids : Refs[k] = Nil => (GetRefMisses(k) /\ PeekRefResult(k) = Nil))
    /\ [][ \A k \in Cids :
              (Refs[k] = Nil /\ ret'.op \in { "GetRef", "DropRef" } /\ ret'.arg = k
                 /\ faults' = faults)
                  => /\ ~ panicked'
                     /\ UNCHANGED << Refs, rec, bnode, blist, size, root, rootCID, dsRoot >>
         ]_vars

\* C14: after a successful SetRef(R) the persistent map at the current root
\* has R under its content id with R's current fields, the datastore holds
\* the cid of that root under /index/idx and Root() returns it; after any
\* successful held operation the persisted root is the state that operation
\* produced.
C14_PersistedRootIsCurrent ==
    (ret.op \in { "SetRef", "GetRef", "DropRef" } /\ ret.res = "ok") =>
        /\ rootCID.def
        /\ rootCID = RootOf(root)
        /\ dsRoot = rootCID
        /\ RootResult = dsRoot
        /\ ret.op = "SetRef" =>
              Persisted(dsRoot, PayloadCID(ret.arg)) = Encode(Held, ret.arg)
        /\ ret.op = "GetRef" =>
              /\ Refs[ret.arg] # Nil
              /\ Persisted(dsRoot, ret.arg) = Encode(Held, Refs[ret.arg])
        /\ ret.op = "DropRef" => Persisted(dsRoot, ret.arg) = Absent

\* C14: a SetRef succeeded after a record had been read and another call had
\* failed to flush
C14_Witness ==
    /\ ret.op = "SetRef" /\ ret.res = "ok"
    /\ faults < world.faults
    /\ Cardinality(HeldKeys) = 2
    /\ \E k \in HeldKeys : rec[Refs[k]].Freq > 0

\* the held state after the SetRef calls of the threads of order, one after
\* the other
RECURSIVE AfterSetRefs(_, _)
AfterSetRefs(h, order) ==
    IF order = << >> THEN h
    ELSE LET t == Head(order)
             h0 == [ h EXCEPT !.Refs[PayloadCID(t)] = t,
                              !.size = U64(@ + PayloadSize(t)) ]
         IN  AfterSetRefs(Collect(increment(h0, t)), Tail(order))

AllDone == \A t \in Threads : tx[t].pc = "done"

\* C15: when several threads call SetRef concurrently with distinct content
\* ids and nothing is evicted, every call returns (as long as a call has not
\* returned some thread can take a step, and every step moves a thread one
\* position towards its return), and once all have returned Len() is the
\* number of calls, the persistent map at Root() and in the datastore has
\* every inserted record, and the held state is the one some sequential order
\* of the calls produces.
C15_ConcurrentSetRefs ==
    /\ AllDone \/ ENABLED NextTx
    /\ AllDone =>
          /\ ~ mu
          /\ LenResult = Cardinality(Threads)
          /\ \A t \in Threads :
                /\ Persisted(RootResult, PayloadCID(t)) = Encode(Held, t)
                /\ Persisted(dsRoot, PayloadCID(t)) = Encode(Held, t)
          /\ \E order \in OrdersOf(Threads) :
                LET h == AfterSetRefs(
                             [ Refs |-> [ k \in Cids |-> Nil ], size |-> 0,
                               rec |-> [ o \in Objs |-> NoRecord ],
                               bnode |-> [ n \in Nodes |-> EmptyBucket ],
                               blist |-> << >>, panicked |-> FALSE,
                               evicted |-> 0, victims |-> {} ], order)
                IN  /\ Refs = h.Refs /\ size = h.size /\ rec = h.rec
                    /\ bnode = h.bnode /\ blist = h.blist

\* C15: the calls of all threads, started together, have returned
C15_Witness == AllDone /\ Cardinality(HeldKeys) = Cardinality(Threads) /\ ~ mu

\* C16: LoadInterest releases the held mutex after the membership check of
\* every remote entry, one whose key is held included: the call returns (no
\* Lock of its walk waits forever), and once it has returned both the held
\* mutex and the interest mutex are free, so that later held operations run
C16_LoadInterestReleasesMu ==
    ret.op = "LoadInterest" => (ret.res = "ok" /\ ~ mu /\ ~ imu)

\* C17: PeekRef(k) returns the held record of k (none when k is not held)
\* without registering a read: a PeekRef step leaves the held map, every
\* record's Freq and BucketID, the bucket list, the accumulated size, the
\* persistent map and the persisted root as they were, for held and absent k
C17_PeekRefRegistersNoRead ==
    /\ [](\A k \in Cids :
            PeekRefResult(k) # Nil =>
                PayloadCID(PeekRefResult(k)) = k /\ PeekRefResult(k) \in HeldObjs)
    /\ [][\A k \in Cids :
            PeekRef(k) => UNCHANGED << Refs, rec, bnode, blist, size, root, rootCID,
                                       dsRoot, panicked >>]_vars

\* PeekRef runs in a state with a record that was read before and an absent key
C17_Witness ==
    /\ ENABLED (\E k \in Cids : PeekRef(k))
    /\ \E k \in Cids : PeekRefResult(k) # Nil /\ track[PeekRefResult(k)].n > 0
    /\ \E k \in Cids : PeekRefResult(k) = Nil

\* C18: a GetRef or DropRef that fails with a storage error (root.Set,
\* root.Delete, ms.Delete or Flush) leaves the in-memory state as it was before
\* the call: the held map, the bucket list, every record's Freq and BucketID
\* and the accumulated size
C18_StorageFailureRollsBack ==
    [][(/\ faults' < faults
        /\ ret'.op \in { "GetRef", "DropRef" }
        /\ ret'.res = "err")
       => UNCHANGED << Refs, rec, bnode, blist, size >>]_vars

\* the sum of the PayloadSize of the interest records of the keys S
RECURSIVE SumOfRemoteSizes(_)
SumOfRemoteSizes(S) ==
    IF S = {} THEN 0
    ELSE LET k == CHOOSE x \in S : TRUE IN RemoteSize(k) + SumOfRemoteSizes(S \ { k })

WantedKeys == { k \in Cids : interest[k].present }

\* Interesting is called and its call of Available returns
InterestingRuns == world.interest /\ ~ panicked /\ ~ imu /\ ~ mu

\* C19: when Available() > 0, Interesting returns without error a set of
\* interest records taken from the back of the list: no record left out has
\* a higher Freq than a returned one; either every interest record is
\* returned or the returned sizes add up to Available() or more; and the
\* returned sizes without the record added last add up to less
C19_InterestingFillsAvailable ==
    (InterestingRuns /\ AvailableResult > 0) =>
        \A order \in CidOrders :
            LET r == InterestingResult(order)
                rest == WantedKeys \ r.out
            IN  /\ r.res = "ok"
                /\ r.out \subseteq WantedKeys
                /\ \A k \in r.out, j \in rest : interest[k].Freq >= interest[j].Freq
                /\ rest = {} \/ SumOfRemoteSizes(r.out) >= AvailableResult
                /\ r.out # {} =>
                       \E last \in r.out :
                           SumOfRemoteSizes(r.out \ { last }) < AvailableResult

\* Interesting runs with space available for one of two interest records of
\* different frequencies, and returns the more frequent one only
C19_Witness ==
    /\ InterestingRuns /\ AvailableResult > 0
    /\ ENABLED (\E order \in CidOrders : Interesting(order))
    /\ Len(freqs) = 2
    /\ \E order \in CidOrders :
           /\ InterestingResult(order).out # {}
           /\ InterestingResult(order).out # WantedKeys
           /\ InterestingResult(order).out = fnode[Back(freqs)].entries

\* C20: when Available() = 0, Interesting does not crash, with the held bucket
\* list or the interest list empty too: it returns exactly one record of the
\* back interest bucket when that bucket's frequency is greater than the
\* lowest Freq of the records of the held front bucket, and fails with
\* "nothing interesting" otherwise
C20_InterestingSwapsOrFails ==
    /\ ~ (ret.op = "Interesting" /\ ret.res = "panic")
    /\ (InterestingRuns /\ AvailableResult = 0) =>
           \A order \in CidOrders :
               LET r == InterestingResult(order)
                   swap == /\ Back(freqs) # NilNode /\ Front(blist) # NilNode
                           /\ \E ref \in bnode[Front(blist)].entries :
                                  /\ \A o \in bnode[Front(blist)].entries :
                                        rec[ref].Freq <= rec[o].Freq
                                  /\ fnode[Back(freqs)].freq > rec[ref].Freq
               IN  /\ r.res \in { "ok", "err" }
                   /\ r.res = "ok" <=> swap
                   /\ r.res = "ok" =>
                          /\ Cardinality(r.out) = 1
                          /\ r.out \subseteq fnode[Back(freqs)].entries
                   /\ r.res = "err" => r.out = {}

\* the sizes SetRef asks evict to free
EvictTargets == { 50, 100, 150, 200 }

\* C21: evict goes on to the next bucket after it has emptied and unlinked a
\* bucket, and stops only with the target reached or the list exhausted: when
\* the records of the bucket list add up to the target or more and every
\* sub-store deletion succeeds, evict returns the target or more
C21_EvictReachesTarget ==
    ~ panicked =>
        \A target \in EvictTargets, order \in OrdersOf(Listed) :
            SumOfSizes(Listed) >= target =>
                evict(Held, target, order, {}).evicted >= target

\* every call of the mix has returned
AllReturned == \A t \in Threads : tx[t].pc = "done"

\* the threads inside a held operation, and those inside an interest call
InHeldCall ==
    { t \in Threads :
        \/ t = Setter /\ tx[t].pc \notin { "start", "done" }
        \/ t = Caller /\ tx[t].pc \in { "held", "returned" } }
InInterestCall ==
    { t \in Threads :
        \/ t = Seeker /\ tx[t].pc \notin { "start", "done" }
        \/ t = Caller /\ tx[t].pc \in { "wanted", "answered" } }

\* C22: held operations never take the interest mutex and the held mutex is
\* requested only by a thread that is in no held operation, so that a mix of
\* threads running Interesting, DropInterest, InterestLen and held operations
\* has no cyclic wait and every call returns: until all calls have returned
\* some thread can take a step
C22_MixReturns ==
    /\ \A t \in InHeldCall : t \notin InInterestCall
    /\ AllReturned \/ ENABLED (\E t \in Threads : MixStep(t))

\* the threads that hold the held mutex
HoldsHeldMutex ==
    InHeldCall \cup { t \in Threads : t = Seeker /\ tx[t].pc \in { "available", "measured" } }

\* the threads whose next statement reads or writes held state
AccessesHeld ==
    { t \in Threads :
        \/ t = Setter /\ tx[t].pc \in { "locked", "stored", "placed", "set", "put", "assigned" }
        \/ t = Caller /\ tx[t].pc = "held"
        \/ t = Seeker /\ tx[t].pc = "available"
        \/ t = Seeker /\ tx[t].pc = "released" /\ SeekReadsHeld(t) }

\* the threads between the first and the last write of a held operation
MidMutation == { t \in Threads : t = Setter /\ tx[t].pc \in { "stored", "placed", "set", "put", "assigned" } }

\* C23: a thread reads or writes held state (the bucket list, the held map,
\* the Freq and BucketID of held records, the size, the root cid) only while
\* it holds the held mutex, so that Interesting never reads the held bucket
\* list while a SetRef is between its writes
C23_HeldStateUnderMutex ==
    /\ AccessesHeld \subseteq HoldsHeldMutex
    /\ ~ (Seeker \in AccessesHeld /\ tx[Seeker].pc = "released" /\ MidMutation # {})

\* C24: after a successful SetRef(R), R is held: PeekRef of its content id
\* returns R, and R is an entry of exactly one bucket of the list; also when
\* another object was held for the content id, and when the call evicts
C24_SetRefHoldsRecord ==
    (ret.op = "SetRef" /\ ret.res = "ok") =>
        /\ PeekRefResult(PayloadCID(ret.arg)) = ret.arg
        /\ Cardinality({ n \in Range(blist) : ret.arg \in bnode[n].entries }) = 1

\* the elements of freqs the key k is an entry of
EntriesOf(k) == { n \in Range(freqs) : k \in fnode[n].entries }

\* the number of entries of the listEntries of l
RECURSIVE CountEntries(_)
CountEntries(l) ==
    IF l = << >> THEN 0 ELSE Cardinality(fnode[Head(l)].entries) + CountEntries(Tail(l))

\* C25: after any LoadInterest and DropInterest calls the frequencies of the
\* interest list are strictly ascending front to back, no listEntry is empty,
\* every record of the interest map is an entry of exactly one listEntry,
\* which is the one its bucketNode refers to and has the record's Freq, and
\* InterestLen() is the number of entries of the list
C25_InterestListWellFormed ==
    /\ \A i, j \in 1 .. Len(freqs) : i < j => fnode[freqs[i]].freq < fnode[freqs[j]].freq
    /\ \A n \in Range(freqs) : fnode[n].entries # {}
    /\ \A k \in WantedKeys :
          /\ EntriesOf(k) = { interest[k].bucketNode }
          /\ fnode[interest[k].bucketNode].freq = interest[k].Freq
    /\ \A n \in Range(freqs) : fnode[n].entries \subseteq WantedKeys
    /\ InterestLenResult = CountEntries(freqs)

\* C25: a LoadInterest has moved a record to a higher frequency, past the
\* listEntry of another record, and a DropInterest has emptied a listEntry
C25_Witness ==
    /\ ret.op = "DropInterest"
    /\ Len(freqs) = 1
    /\ \E k \in WantedKeys : merged[k].seen /\ merged[k].sum = MaxInterestFreq
====
